---- MODULE Spec2Model ----
(***************************************************************************)
(* Model of comfyui-manager-keepalive/js/keepalive.js (the version with    *)
(* the status notification and the recovery poller, lines 72-230).         *)
(*                                                                         *)
(* One JavaScript event loop: every action below is one task of the loop   *)
(* (an event handler, a timer callback, or the continuation of an async    *)
(* function after its await), run to completion.                           *)
(*                                                                         *)
(* The code's functions are operators from a state record to a state       *)
(* record, so that a handler is the composition of the calls it makes.     *)
(***************************************************************************)
EXTENDS Integers, Sequences, FiniteSets, TLC

\* ---- bounds of the model ------------------------------------------------
\* total number of fetch() calls (heartbeats and polls) in one behaviour
MaxRequests == 4
\* the same, in the behaviours checked for convergence
MaxConvergeRequests == 3

\* ---- program constants (milliseconds) -----------------------------------
PING_INTERVAL == 60000
FETCH_TIMEOUT == 5000
POLL_DELAY == 2000
DISMISS_DELAY == 2000
FADE_DELAY == 300

STARTING_MSG == "ComfyUI is starting up... Please wait."
READY_MSG == "ComfyUI is ready!"

VARIABLES
    hidden,          \* document.hidden
    setupDone,       \* the extension's setup() has run
    pingInterval,    \* let pingInterval: 0 is null, else an interval handle
    intervals,       \* the live setInterval timers of the page
    notificationEl,  \* let notificationEl: 0 is null, else an element id
    dom,             \* the notification elements attached to document.body
    inflight,        \* fetch() calls issued and not yet settled
    timers,          \* pending setTimeout callbacks, in scheduling order
    sessions,        \* one record per pollUntilRunning() call, in call order
    nextReq,         \* number of fetch() calls so far
    nextEl,          \* number of elements created so far
    olog,            \* history: what happened to the overlay, in order
    hbCount,         \* history: heartbeat responses/failures handled so far
    hbStarting,      \* history: of those, how many carried state 'starting'
    unhandled,       \* history: rejections that escaped an async function
    last,            \* history: the task that ran last
    handlerRan,      \* history: a visibilitychange event has been handled
    settled,         \* environment: from now on the tab stays visible and
                     \* every response is 200 with state 'running'
    maxReq           \* the number of fetch() calls this behaviour may make

vars == <<hidden, setupDone, pingInterval, intervals, notificationEl, dom,
          inflight, timers, sessions, nextReq, nextEl, olog, hbCount,
          hbStarting, unhandled, last, handlerRan, settled, maxReq>>

\* ---- what the network can answer ----------------------------------------
\* the text of a response body, by the state it carries
Bodies == {"starting", "running", "stopped", "nostate", "malformed"}

\* the HTTP statuses the model answers with: one 2xx, one not
Statuses == {200, 503}

NoOutcome == [kind |-> "none", status |-> 0, body |-> "none"]

\* fetch() rejects (network error, or AbortSignal.timeout after 5 s), or it
\* resolves with a response of some HTTP status and some body
Outcomes ==
    {[kind |-> k, status |-> 0, body |-> "none"] : k \in {"neterr", "timeout"}}
    \cup {[kind |-> "http", status |-> c, body |-> b] :
             c \in Statuses, b \in Bodies}

\* response.ok
Ok(out) == out.kind = "http" /\ out.status \in 200..299

\* await fetch(...) throws
fetchRejects(out) == out.kind \in {"neterr", "timeout"}

\* await response.json() throws
jsonThrows(out) == out.kind = "http" /\ out.body = "malformed"

\* the try block throws before data is available
Thrown(out) == fetchRejects(out) \/ jsonThrows(out)

\* data.state of the parsed body
dataState(out) ==
    IF out.body \in {"starting", "running", "stopped"} THEN out.body
    ELSE "undefined"

\* ---- the state as a record ----------------------------------------------
\* now: an upper bound on the time since the heartbeat interval was last
\* armed, for the task that is running (PING_INTERVAL when nothing is known)
St == [now |-> PING_INTERVAL, hidden |-> hidden, pingInterval |-> pingInterval,
       intervals |-> intervals, notificationEl |-> notificationEl,
       dom |-> dom, inflight |-> inflight, timers |-> timers,
       sessions |-> sessions, nextReq |-> nextReq, nextEl |-> nextEl,
       olog |-> olog]

\* the requests a settled environment still has to see: one per pending
\* re-poll timer, and one heartbeat when a notification is displayed that
\* nothing pending will hide
Need(s) ==
    Cardinality({i \in 1..Len(s.timers) : s.timers[i].kind = "repoll"})
    + (IF /\ s.notificationEl # 0
          /\ \A r \in s.inflight : r.kind # "ping"
          /\ \A i \in 1..Len(s.timers) : s.timers[i].kind = "repoll"
       THEN 1 ELSE 0)

Commit(s) ==
    /\ s.nextReq + (IF settled THEN Need(s) ELSE 0) <= maxReq
    /\ hidden' = s.hidden
    /\ pingInterval' = s.pingInterval
    /\ intervals' = s.intervals
    /\ notificationEl' = s.notificationEl
    /\ dom' = s.dom
    /\ inflight' = s.inflight
    /\ timers' = s.timers
    /\ sessions' = s.sessions
    /\ nextReq' = s.nextReq
    /\ nextEl' = s.nextEl
    /\ olog' = s.olog

\* ---- host primitives ----------------------------------------------------
Min(a, b) == IF a <= b THEN a ELSE b

\* fetch(url, {signal: AbortSignal.timeout(5000)}): one more request in
\* flight, settled at most FETCH_TIMEOUT from now (due)
fetch(s, kind, sid) ==
    [s EXCEPT !.inflight = @ \cup {[id |-> s.nextReq + 1, kind |-> kind,
                                    sid |-> sid,
                                    due |-> Min(s.now + FETCH_TIMEOUT,
                                                PING_INTERVAL)]},
              !.nextReq = @ + 1]

Delay(kind) ==
    CASE kind = "fade" -> FADE_DELAY
      [] kind = "dismiss" -> DISMISS_DELAY
      [] kind = "repoll" -> POLL_DELAY

\* setTimeout(callback, delay): the callback runs Delay(kind) from now (due).
\* el is the element displayed when the timer was set (history only: the
\* callbacks read notificationEl when they run)
setTimeout(s, kind, sid) ==
    [s EXCEPT !.timers = Append(@, [kind |-> kind, sid |-> sid,
                                    el |-> s.notificationEl,
                                    due |-> Min(s.now + Delay(kind),
                                                PING_INTERVAL)])]

\* The heartbeat interval is armed now (created, or it has just ticked):
\* what is pending is over within its own timeout or delay from now.
Rearm(s) ==
    [s EXCEPT !.now = 0,
              !.inflight = {[r EXCEPT !.due = FETCH_TIMEOUT] : r \in s.inflight},
              !.timers = [i \in 1..Len(s.timers) |->
                            [s.timers[i] EXCEPT
                                !.due = Delay(s.timers[i].kind)]]]

FreshHandle(s) == CHOOSE h \in 1..(Cardinality(s.intervals) + 1) :
                      h \notin s.intervals

\* setInterval(ping, PING_INTERVAL)
setInterval(s) ==
    LET h == FreshHandle(s)
    IN  Rearm([s EXCEPT !.intervals = @ \cup {h}, !.pingInterval = h])

\* clearInterval(pingInterval)
clearInterval(s) == [s EXCEPT !.intervals = @ \ {s.pingInterval}]

\* ---- Status overlay -----------------------------------------------------
LogEntry(ev, el, text, type) ==
    [ev |-> ev, el |-> el, text |-> text, type |-> type]

\* showNotification without its "remove existing notification" step
showNotification_noRemove(s, message, type) ==
    LET id == s.nextEl + 1
    IN  [s EXCEPT !.dom = @ \cup {[id |-> id, text |-> message,
                                   type |-> type, opacity |-> "1"]},
                  !.notificationEl = id,
                  !.nextEl = id,
                  !.olog = Append(@, LogEntry("show", id, message, type))]

showNotification(s, message, type) ==
    LET kept == IF s.notificationEl # 0
                THEN {e \in s.dom : e.id # s.notificationEl}
                ELSE s.dom
        id == s.nextEl + 1
    IN  [s EXCEPT !.dom = kept \cup {[id |-> id, text |-> message,
                                      type |-> type, opacity |-> "1"]},
                  !.notificationEl = id,
                  !.nextEl = id,
                  !.olog = Append(@, LogEntry("show", id, message, type))]

\* hideNotification that fades the element and never removes it
hideNotification_noRemoval(s) ==
    IF s.notificationEl # 0
    THEN [s EXCEPT !.dom = {IF e.id = s.notificationEl
                            THEN [e EXCEPT !.opacity = "0"] ELSE e : e \in @},
                   !.olog = Append(@, LogEntry("hide", s.notificationEl,
                                               "", ""))]
    ELSE s

hideNotification(s) ==
    IF s.notificationEl # 0
    THEN setTimeout(
           [s EXCEPT !.dom = {IF e.id = s.notificationEl
                              THEN [e EXCEPT !.opacity = "0"] ELSE e : e \in @},
                     !.olog = Append(@, LogEntry("hide", s.notificationEl,
                                                 "", ""))],
           "fade", 0)
    ELSE s

\* the callback hideNotification passes to setTimeout
fadeCallback(s) ==
    IF s.notificationEl # 0
    THEN [s EXCEPT !.dom = {e \in @ : e.id # s.notificationEl},
                   !.notificationEl = 0,
                   !.olog = Append(@, LogEntry("remove", s.notificationEl,
                                               "", ""))]
    ELSE s

\* ---- Recovery poller ----------------------------------------------------
\* checkState up to its await: the request of one attempt
checkStateFetch(s, sid) ==
    fetch([s EXCEPT !.sessions[sid].attempts = @ + 1], "poll", sid)

\* checkState whose last branch ends the session without hideNotification
checkState_noHideOnOther(s, out) ==
    IF Thrown(out) THEN [s |-> s, done |-> TRUE]
    ELSE IF dataState(out) = "running"
    THEN [s |-> setTimeout(showNotification(s, READY_MSG, "success"),
                           "dismiss", 0),
          done |-> TRUE]
    ELSE IF dataState(out) = "starting" THEN [s |-> s, done |-> FALSE]
    ELSE [s |-> s, done |-> TRUE]

\* checkState whose 'running' branch forgets setTimeout(hideNotification)
checkState_noDismiss(s, out) ==
    IF Thrown(out) THEN [s |-> s, done |-> TRUE]
    ELSE IF dataState(out) = "running"
    THEN [s |-> showNotification(s, READY_MSG, "success"), done |-> TRUE]
    ELSE IF dataState(out) = "starting" THEN [s |-> s, done |-> FALSE]
    ELSE [s |-> hideNotification(s), done |-> TRUE]

\* checkState after its await: the state and the value it returns
checkState(s, out) ==
    IF Thrown(out) THEN [s |-> s, done |-> TRUE]
    ELSE IF dataState(out) = "running"
    THEN [s |-> setTimeout(showNotification(s, READY_MSG, "success"),
                           "dismiss", 0),
          done |-> TRUE]
    ELSE IF dataState(out) = "starting" THEN [s |-> s, done |-> FALSE]
    ELSE [s |-> hideNotification(s), done |-> TRUE]

\* poll that skips the attempt while the tab is hidden
poll_gatedByHidden(s, sid) == IF s.hidden THEN s ELSE checkStateFetch(s, sid)

\* poll up to its await
poll(s, sid) == checkStateFetch(s, sid)

\* poll that sets the timer and also retries at once
pollResume_eagerRetry(s, sid, out) ==
    LET r == checkState(s, out)
    IN  IF ~r.done THEN poll(setTimeout(r.s, "repoll", sid), sid) ELSE r.s

\* poll that never schedules the next attempt
pollResume_noRetry(s, sid, out) == checkState(s, out).s

\* poll after its await
pollResume(s, sid, out) ==
    LET r == checkState(s, out)
    IN  IF ~r.done THEN setTimeout(r.s, "repoll", sid) ELSE r.s

pollUntilRunning(s) ==
    LET sid == Len(s.sessions) + 1
    IN  poll([s EXCEPT !.sessions = Append(@, [attempts |-> 0,
                                               nStarting |-> 0,
                                               endedBy |-> "none"])], sid)

\* ---- Heartbeat ----------------------------------------------------------
\* ping without the document.hidden check
ping_ignoresHidden(s) == fetch(s, "ping", 0)

\* ping up to its await
ping(s) == IF s.hidden THEN s ELSE fetch(s, "ping", 0)

\* ping that drops the response when the tab is hidden by then
pingResume_dropsWhenHidden(s, out) ==
    IF Thrown(out) \/ s.hidden THEN s
    ELSE IF dataState(out) = "starting"
    THEN pollUntilRunning(showNotification(s, STARTING_MSG, "info"))
    ELSE IF dataState(out) = "running" THEN hideNotification(s)
    ELSE s

\* ping that tears the poll sessions down when it sees 'running'
pingResume_endsSessionsOnRunning(s, out) ==
    IF Thrown(out) THEN s
    ELSE IF dataState(out) = "starting"
    THEN pollUntilRunning(showNotification(s, STARTING_MSG, "info"))
    ELSE IF dataState(out) = "running"
    THEN [hideNotification(s) EXCEPT
            !.inflight = {r \in @ : r.kind # "poll"},
            !.timers = SelectSeq(@, LAMBDA t : t.kind # "repoll")]
    ELSE s

\* ping that shows the success notification for 'starting'
pingResume_startingShowsSuccess(s, out) ==
    IF Thrown(out) THEN s
    ELSE IF dataState(out) = "starting"
    THEN pollUntilRunning(showNotification(s, READY_MSG, "success"))
    ELSE IF dataState(out) = "running" THEN hideNotification(s)
    ELSE s

\* ping that announces 'running' with the success notification
pingResume_showsOnRunning(s, out) ==
    IF Thrown(out) THEN s
    ELSE IF dataState(out) = "starting"
    THEN pollUntilRunning(showNotification(s, STARTING_MSG, "info"))
    ELSE IF dataState(out) = "running"
    THEN showNotification(s, READY_MSG, "success")
    ELSE s

\* ping whose catch block dismisses the overlay
pingResume_hidesOnError(s, out) ==
    IF Thrown(out) THEN hideNotification(s)
    ELSE IF dataState(out) = "starting"
    THEN pollUntilRunning(showNotification(s, STARTING_MSG, "info"))
    ELSE IF dataState(out) = "running" THEN hideNotification(s)
    ELSE s

\* ping after its await
pingResume(s, out) ==
    IF Thrown(out) THEN s
    ELSE IF dataState(out) = "starting"
    THEN pollUntilRunning(showNotification(s, STARTING_MSG, "info"))
    ELSE IF dataState(out) = "running" THEN hideNotification(s)
    ELSE s

\* what an error thrown inside ping becomes: caught, so nothing escapes
pingRejections(out) == 0

\* what an error thrown inside checkState/poll becomes
pollRejections(out) == 0

\* startPinging without the "if (!pingInterval)" guard
startPinging_alwaysArms(s) == setInterval(ping(s))

startPinging(s) ==
    LET s1 == ping(s)
    IN  IF s1.pingInterval = 0 THEN setInterval(s1) ELSE s1

\* stopPinging that forgets clearInterval
stopPinging_keepsTimer(s) == [s EXCEPT !.pingInterval = 0]

stopPinging(s) ==
    IF s.pingInterval # 0
    THEN [clearInterval(s) EXCEPT !.pingInterval = 0]
    ELSE s

\* the visibilitychange listener
onVisibilityChange(s) == IF s.hidden THEN stopPinging(s) ELSE startPinging(s)

\* ---- sessions, as seen from outside -------------------------------------
PollRequests(sid) == {r \in inflight : r.kind = "poll" /\ r.sid = sid}
PollTimers(sid) ==
    {i \in 1..Len(timers) : timers[i].kind = "repoll" /\ timers[i].sid = sid}
Active(sid) == PollRequests(sid) # {} \/ PollTimers(sid) # {}
ActiveSessions == {sid \in 1..Len(sessions) : Active(sid)}
PingRequests == {r \in inflight : r.kind = "ping"}

\* ---- timing -------------------------------------------------------------
\* a timeout runs after every timeout set earlier with a delay not longer
CanFire(i) ==
    \A j \in 1..(i - 1) : Delay(timers[j].kind) > Delay(timers[i].kind)

RemoveAt(seq, i) == SubSeq(seq, 1, i - 1) \o SubSeq(seq, i + 1, Len(seq))

\* an interval ticks PING_INTERVAL after it was armed: by then every request
\* and timeout that is due earlier is over
CanTick ==
    /\ \A r \in inflight : r.due >= PING_INTERVAL
    /\ \A i \in 1..Len(timers) : timers[i].due >= PING_INTERVAL

Event(act, out, sid) == [act |-> act, out |-> out, sid |-> sid]

\* what the backend can answer now
Answers ==
    IF settled THEN {[kind |-> "http", status |-> 200, body |-> "running"]}
    ELSE Outcomes

\* ---- the tasks of the event loop ----------------------------------------
InitState ==
    /\ hidden \in BOOLEAN
    /\ setupDone = FALSE
    /\ pingInterval = 0
    /\ intervals = {}
    /\ notificationEl = 0
    /\ dom = {}
    /\ inflight = {}
    /\ timers = <<>>
    /\ sessions = <<>>
    /\ nextReq = 0
    /\ nextEl = 0
    /\ olog = <<>>
    /\ hbCount = 0
    /\ hbStarting = 0
    /\ unhandled = 0
    /\ last = Event("init", NoOutcome, 0)
    /\ handlerRan = FALSE
    /\ settled = FALSE

Init == InitState /\ maxReq = MaxRequests

\* app.registerExtension({ setup() { startPinging() } })
Setup ==
    /\ ~setupDone
    /\ setupDone' = TRUE
    /\ Commit(startPinging(St))
    /\ last' = Event("setup", NoOutcome, 0)
    /\ UNCHANGED <<hbCount, hbStarting, unhandled, handlerRan, settled, maxReq>>

\* the host flips document.hidden and dispatches visibilitychange
VisibilityChange ==
    /\ ~settled
    /\ Commit(onVisibilityChange([St EXCEPT !.hidden = ~hidden]))
    /\ last' = Event(IF hidden THEN "visible" ELSE "hidden", NoOutcome, 0)
    /\ handlerRan' = TRUE
    /\ UNCHANGED <<setupDone, hbCount, hbStarting, unhandled, settled, maxReq>>

\* a live interval timer calls ping
Tick ==
    /\ intervals # {}
    /\ CanTick
    /\ Commit(Rearm(ping(St)))
    /\ last' = Event("tick", NoOutcome, 0)
    /\ UNCHANGED <<setupDone, hbCount, hbStarting, unhandled, handlerRan,
                   settled, maxReq>>

\* a heartbeat request settles and ping continues after its await
HeartbeatResponse ==
    \E r \in PingRequests, out \in Answers :
        /\ Commit(pingResume([St EXCEPT !.now = r.due,
                                         !.inflight = @ \ {r}], out))
        /\ hbCount' = hbCount + 1
        /\ hbStarting' = hbStarting + (IF out.body = "starting" THEN 1 ELSE 0)
        /\ unhandled' = unhandled + pingRejections(out)
        /\ last' = Event("hbResp", out, 0)
        /\ UNCHANGED <<setupDone, handlerRan, settled, maxReq>>

EndedBy(out) ==
    IF Thrown(out) THEN "error"
    ELSE IF dataState(out) = "running" THEN "running"
    ELSE IF dataState(out) = "starting" THEN "none"
    ELSE "other"

\* a poll request settles and checkState/poll continue after their awaits
PollResponse ==
    \E r \in inflight, out \in Answers :
        /\ r.kind = "poll"
        /\ LET s0 == [St EXCEPT !.now = r.due,
                        !.inflight = @ \ {r},
                        !.sessions[r.sid].nStarting =
                            @ + (IF out.body = "starting" THEN 1 ELSE 0),
                        !.sessions[r.sid].endedBy = EndedBy(out)]
           IN  Commit(pollResume(s0, r.sid, out))
        /\ unhandled' = unhandled + pollRejections(out)
        /\ last' = Event("pollResp", out, r.sid)
        /\ UNCHANGED <<setupDone, hbCount, hbStarting, handlerRan, settled, maxReq>>

\* the 2 s timer of poll expires: the next attempt
RepollTimeout ==
    \E i \in 1..Len(timers) :
        /\ timers[i].kind = "repoll"
        /\ CanFire(i)
        /\ Commit(poll([St EXCEPT !.now = timers[i].due,
                                   !.timers = RemoveAt(@, i)], timers[i].sid))
        /\ last' = Event("repoll", NoOutcome, timers[i].sid)
        /\ UNCHANGED <<setupDone, hbCount, hbStarting, unhandled, handlerRan,
                   settled, maxReq>>

\* the 2 s timer set after the success notification expires
DismissTimeout ==
    \E i \in 1..Len(timers) :
        /\ timers[i].kind = "dismiss"
        /\ CanFire(i)
        /\ Commit(hideNotification([St EXCEPT !.now = timers[i].due,
                                               !.timers = RemoveAt(@, i)]))
        /\ last' = Event("dismiss", NoOutcome, 0)
        /\ UNCHANGED <<setupDone, hbCount, hbStarting, unhandled, handlerRan,
                   settled, maxReq>>

\* the 300 ms timer of hideNotification expires
FadeTimeout ==
    \E i \in 1..Len(timers) :
        /\ timers[i].kind = "fade"
        /\ CanFire(i)
        /\ Commit(fadeCallback([St EXCEPT !.now = timers[i].due,
                                           !.timers = RemoveAt(@, i)]))
        /\ last' = Event("fade", NoOutcome, 0)
        /\ UNCHANGED <<setupDone, hbCount, hbStarting, unhandled, handlerRan,
                   settled, maxReq>>

Next ==
    \/ Setup
    \/ VisibilityChange
    \/ Tick
    \/ HeartbeatResponse
    \/ PollResponse
    \/ RepollTimeout
    \/ DismissTimeout
    \/ FadeTimeout

Spec == Init /\ [][Next]_vars

\* The environment settles: the tab is visible and stays so, and the backend
\* answers 'running' from now on. It settles only while the model still has
\* the requests left that the pending work needs.
Settle ==
    /\ ~settled
    /\ ~hidden
    /\ nextReq + Need(St) <= maxReq
    /\ settled' = TRUE
    /\ last' = Event("settle", NoOutcome, 0)
    /\ UNCHANGED <<hidden, setupDone, pingInterval, intervals, notificationEl,
                   dom, inflight, timers, sessions, nextReq, nextEl, olog,
                   hbCount, hbStarting, unhandled, handlerRan, maxReq>>

NextConverge == Next \/ Settle

\* Requests settle within their 5 s timeout, pending timeouts expire, and a
\* live interval timer keeps ticking.
Fairness ==
    /\ WF_vars(HeartbeatResponse)
    /\ WF_vars(PollResponse)
    /\ WF_vars(RepollTimeout)
    /\ WF_vars(DismissTimeout)
    /\ WF_vars(FadeTimeout)
    /\ WF_vars(Tick)

InitConverge == InitState /\ maxReq = MaxConvergeRequests

SpecConverge == InitConverge /\ [][NextConverge]_vars /\ Fairness

TypeOK ==
    /\ hidden \in BOOLEAN
    /\ nextReq \in 0..maxReq
    /\ pingInterval \in Nat
    /\ notificationEl \in 0..nextEl

\* ---- helpers of the properties ------------------------------------------
PingIds == {r.id : r \in PingRequests}

IsPrefix(a, b) == Len(a) <= Len(b) /\ SubSeq(b, 1, Len(a)) = a

\* index of the earliest pending fade timer, 0 if none: the only fade timer
\* that can run next
FirstFade ==
    IF \E i \in 1..Len(timers) : timers[i].kind = "fade"
    THEN CHOOSE i \in 1..Len(timers) :
            /\ timers[i].kind = "fade"
            /\ \A j \in 1..(i - 1) : timers[j].kind # "fade"
    ELSE 0

\* the last call of setTimeout was hideNotification's, for element el
HideInitiated(el) ==
    /\ Len(timers') = Len(timers) + 1
    /\ timers'[Len(timers')].kind = "fade"
    /\ timers'[Len(timers')].el = el
    /\ \A e \in dom' : e.id = el => e.opacity = "0"

\* ---- C1 -----------------------------------------------------------------
\* C1: at most one Recovery Poller session (a pollUntilRunning loop that has
\* a request in flight or a re-poll timer pending) is active at any time.
C1_AtMostOneSession == Cardinality(ActiveSessions) <= 1

\* ---- C2 -----------------------------------------------------------------
\* C2: when a poll attempt fails (fetch rejects or the body does not parse),
\* the session ends with nothing further scheduled and, if a notification is
\* displayed, its hide is initiated by that very step.
C2_PollFailureDismisses ==
    [][\A sid \in 1..Len(sessions) :
          (last'.act = "pollResp" /\ last'.sid = sid /\ Thrown(last'.out))
          => /\ ~Active(sid)'
             /\ notificationEl # 0 => HideInitiated(notificationEl)]_vars

\* ---- C3 -----------------------------------------------------------------
\* C3: a notification shown while an earlier hideNotification's removal is
\* pending is not removed when that earlier 300 ms delay expires.
C3_ShowCancelsPendingRemoval ==
    [][(/\ last'.act = "fade"
        /\ FirstFade # 0
        /\ notificationEl # 0
        /\ timers[FirstFade].el # notificationEl)
       => (notificationEl' = notificationEl /\ dom' = dom)]_vars

\* ---- C4 -----------------------------------------------------------------
\* C4: every Hidden -> Visible transition issues exactly one heartbeat
\* request in the handler, and no step that ends with the tab Hidden issues
\* a heartbeat request (handler, setup or interval tick).
C4_HeartbeatGatedByVisibility ==
    [][/\ (hidden /\ ~hidden') => Cardinality(PingIds' \ PingIds) = 1
       /\ (PingIds' \ PingIds # {}) => ~hidden']_vars

\* a Hidden -> Visible transition has just issued its heartbeat, after the
\* tab had been Visible, Hidden and Visible again
C4_Witness ==
    /\ last.act = "visible"
    /\ ~hidden
    /\ nextReq >= 2
    /\ \E r \in PingRequests : r.id = nextReq

\* ---- C5 -----------------------------------------------------------------
\* C5: a poll response carrying 'starting' leaves its session active with
\* exactly one re-poll timer and no request; any other response or a failure
\* ends the session in that step; the re-poll timer issues exactly one
\* further request.
C5_SessionStepsOnceOrEnds ==
    [][\A sid \in 1..Len(sessions) :
          /\ (last'.act = "pollResp" /\ last'.sid = sid)
             => IF dataState(last'.out) = "starting"
                THEN /\ Cardinality(PollTimers(sid))' = 1
                     /\ PollRequests(sid)' = {}
                ELSE ~Active(sid)'
          /\ (last'.act = "repoll" /\ last'.sid = sid)
             => /\ Cardinality(PollRequests(sid))' = 1
                /\ PollTimers(sid)' = {}
                /\ sessions'[sid].attempts = sessions[sid].attempts + 1]_vars

\* a session has ended on 'running' after a run of 'starting' responses
C5_Witness ==
    \E sid \in 1..Len(sessions) :
        /\ sessions[sid].nStarting >= 1
        /\ sessions[sid].endedBy = "running"
        /\ sessions[sid].attempts = sessions[sid].nStarting + 1
        /\ ~Active(sid)

\* ---- C6 -----------------------------------------------------------------
\* C6: at most one notification element is attached to the page in every
\* reachable state, and a showNotification that runs while a notification is
\* displayed leaves exactly the new call's element and message attached.
C6_SingleNotification ==
    /\ [](Cardinality(dom) <= 1)
    /\ [][(nextEl' # nextEl /\ dom # {})
          => dom' = {[id |-> nextEl',
                      text |-> IF last'.act = "hbResp" THEN STARTING_MSG
                               ELSE READY_MSG,
                      type |-> IF last'.act = "hbResp" THEN "info"
                               ELSE "success",
                      opacity |-> "1"]}]_vars

\* show ran right after show, and only the second message is displayed
C6_Witness ==
    /\ Len(olog) >= 2
    /\ olog[Len(olog) - 1].ev = "show"
    /\ olog[Len(olog)].ev = "show"
    /\ olog[Len(olog) - 1].text # olog[Len(olog)].text
    /\ \E e \in dom : dom = {e} /\ e.text = olog[Len(olog)].text

\* ---- C7 -----------------------------------------------------------------
\* C7: a response with a non-2xx status is handled like a transport failure
\* whatever its body: no notification is created, no session is started, and
\* the session that polled does not continue.
C7_Non2xxIsFailure ==
    [][(/\ last'.act \in {"hbResp", "pollResp"}
        /\ last'.out.kind = "http"
        /\ ~Ok(last'.out))
       => /\ nextEl' = nextEl
          /\ Len(sessions') = Len(sessions)
          /\ \A sid \in 1..Len(sessions) : last'.sid = sid => ~Active(sid)']_vars

\* ---- C8 -----------------------------------------------------------------
ExpectedOverlay ==
    << LogEntry("show", 1, STARTING_MSG, "info"),
       LogEntry("show", 2, READY_MSG, "success"),
       LogEntry("hide", 2, "", ""),
       LogEntry("remove", 2, "", "") >>

\* the only heartbeat response so far carried 'starting' and the session it
\* started has so far received 'starting' k times, then possibly 'running'
ScenarioB ==
    /\ hbCount = 1
    /\ hbStarting = 1
    /\ Len(sessions) >= 1
    /\ sessions[1].endedBy \in {"none", "running"}

\* C8: in that scenario there is one session, it issues one request per
\* 'starting' response plus one (k+1 when it ends on 'running'), and the
\* overlay goes through info shown, success shown, hide initiated by the
\* 2 s timer, element removed, and nothing else.
C8_StartingThenRunning ==
    ScenarioB =>
        /\ Len(sessions) = 1
        /\ IsPrefix(olog, ExpectedOverlay)
        /\ sessions[1].endedBy = "none" =>
              /\ Active(1)
              /\ Len(olog) = 1
              /\ sessions[1].attempts = sessions[1].nStarting
                    + Cardinality(PollRequests(1))
        /\ sessions[1].endedBy = "running" =>
              /\ ~Active(1)
              /\ sessions[1].attempts = sessions[1].nStarting + 1
              /\ Len(olog) >= 2
              /\ Len(olog) = 2 => \E i \in 1..Len(timers) :
                                      timers[i].kind = "dismiss"
              /\ Len(olog) = 3 => \E i \in 1..Len(timers) :
                                      timers[i].kind = "fade"
              /\ Len(olog) = 4 => (dom = {} /\ notificationEl = 0)
              /\ timers = <<>> => olog = ExpectedOverlay

\* scenario B itself has run to its end: two poll attempts, overlay empty
C8_Witness ==
    /\ ScenarioB
    /\ sessions[1].nStarting = 1
    /\ sessions[1].endedBy = "running"
    /\ sessions[1].attempts = 2
    /\ olog = ExpectedOverlay
    /\ dom = {}

\* ---- C9 -----------------------------------------------------------------
\* C9: as long as no heartbeat response has carried state 'starting', no
\* notification element has been created and no session has been started.
C9_NothingWithoutStarting ==
    hbStarting = 0 =>
        /\ nextEl = 0
        /\ notificationEl = 0
        /\ dom = {}
        /\ sessions = <<>>
        /\ olog = <<>>

\* two heartbeats were answered, the last one with 'running', none with
\* 'starting'
C9_Witness ==
    /\ hbStarting = 0
    /\ hbCount >= 2
    /\ last.act = "hbResp"
    /\ dataState(last.out) = "running"

\* ---- C10 ----------------------------------------------------------------
\* C10: a heartbeat that fails (fetch rejects, or the body does not parse)
\* only takes its request out of flight: overlay, sessions, timers, the
\* interval handle and its timer are unchanged, no request is issued and no
\* rejection escapes ping.
C10_FailedHeartbeatChangesNothing ==
    [][(last'.act = "hbResp" /\ Thrown(last'.out))
       => /\ UNCHANGED <<notificationEl, dom, olog, sessions, timers,
                         pingInterval, intervals, nextReq, nextEl, hidden,
                         unhandled>>
          /\ inflight' \subseteq inflight
          /\ Cardinality(inflight') = Cardinality(inflight) - 1]_vars

\* a heartbeat has just failed while a notification was displayed and the
\* interval timer was live
C10_Witness ==
    /\ last.act = "hbResp"
    /\ Thrown(last.out)
    /\ notificationEl # 0
    /\ intervals # {}
    /\ pingInterval \in intervals

\* ---- C11 ----------------------------------------------------------------
PollIds(sid) == {r.id : r \in PollRequests(sid)}

\* C11: the step that hides the tab leaves every session's request and
\* re-poll timer as they were; while Hidden a re-poll timer still issues its
\* request and a session ends only on its own response that is not
\* 'starting'; no heartbeat request is issued in a step that ends Hidden.
C11_HiddenDoesNotCancelSession ==
    [][/\ \A sid \in 1..Len(sessions) :
            /\ (~hidden /\ hidden')
               => /\ PollIds(sid)' = PollIds(sid)
                  /\ PollTimers(sid)' = PollTimers(sid)
            /\ (hidden /\ last'.act = "repoll" /\ last'.sid = sid)
               => Cardinality(PollIds(sid)') = 1
            /\ (hidden /\ Active(sid) /\ ~Active(sid)')
               => /\ last'.act = "pollResp"
                  /\ last'.sid = sid
                  /\ dataState(last'.out) # "starting"
       /\ (PingIds' \ PingIds # {}) => ~hidden']_vars

\* while Hidden, a session has just issued a further attempt
C11_Witness ==
    /\ hidden
    /\ last.act = "repoll"
    /\ \E sid \in 1..Len(sessions) :
          /\ last.sid = sid
          /\ sessions[sid].attempts >= 2
          /\ PollRequests(sid) # {}
    /\ PingRequests = {}

\* ---- C12 ----------------------------------------------------------------
\* C12: at most one heartbeat request is outstanding at any time.
C12_OneOutstandingHeartbeat == Cardinality(PingRequests) <= 1

\* ---- C13 ----------------------------------------------------------------
\* C13: a session never has more than one of (request in flight, re-poll
\* timer pending), and a further request of an existing session is issued
\* only by the expiry of its re-poll timer, with no request of it in flight.
C13_AttemptsSequential ==
    /\ [](\A sid \in 1..Len(sessions) :
             Cardinality(PollRequests(sid)) + Cardinality(PollTimers(sid)) <= 1)
    /\ [][\A sid \in 1..Len(sessions) :
             (PollIds(sid)' \ PollIds(sid) # {})
             => /\ last'.act = "repoll"
                /\ last'.sid = sid
                /\ PollRequests(sid) = {}
                /\ Cardinality(PollTimers(sid)) = 1
                /\ PollTimers(sid)' = {}]_vars

\* a session is on its second or later attempt, with one request in flight
C13_Witness ==
    \E sid \in 1..Len(sessions) :
        /\ sessions[sid].attempts >= 2
        /\ Cardinality(PollRequests(sid)) = 1
        /\ PollTimers(sid) = {}

\* ---- C14 ----------------------------------------------------------------
\* C14: at most one heartbeat interval timer is live, it is the one
\* pingInterval holds, and the visibility handler's stopPinging leaves none.
C14_OneIntervalTimer ==
    /\ [](/\ Cardinality(intervals) <= 1
          /\ intervals = IF pingInterval = 0 THEN {} ELSE {pingInterval})
    /\ [][(last'.act = "hidden") => (intervals' = {} /\ pingInterval' = 0)]_vars

\* startPinging has run a second time while the timer existed
C14_Witness ==
    /\ last.act = "setup"
    /\ nextReq >= 2
    /\ Cardinality(intervals) = 1
    /\ pingInterval \in intervals

\* ---- C16 ----------------------------------------------------------------
\* C16: a heartbeat response handled while the tab is Hidden is interpreted
\* as when Visible: 'starting' shows the info notification and starts a poll
\* session, 'running' initiates the hide of the displayed notification.
C16_HiddenResponseStillInterpreted ==
    [][(last'.act = "hbResp" /\ hidden)
       => /\ dataState(last'.out) = "starting"
             => /\ nextEl' = nextEl + 1
                /\ dom' = {[id |-> nextEl', text |-> STARTING_MSG,
                            type |-> "info", opacity |-> "1"]}
                /\ notificationEl' = nextEl'
                /\ Len(sessions') = Len(sessions) + 1
                /\ \E n \in 1..(Len(sessions) + 1) :
                      n = Len(sessions) + 1 /\ Cardinality(PollIds(n)') = 1
          /\ (dataState(last'.out) = "running" /\ notificationEl # 0)
             => HideInitiated(notificationEl)]_vars

\* a 'starting' heartbeat response has just been handled while Hidden
C16_Witness ==
    /\ hidden
    /\ last.act = "hbResp"
    /\ dataState(last.out) = "starting"
    /\ notificationEl # 0
    /\ Len(sessions) >= 1
    /\ Active(Len(sessions))

\* ---- C17 ----------------------------------------------------------------
\* C17: a heartbeat response 'running' initiates the hide of the displayed
\* notification and leaves every session's request and re-poll timer as they
\* were; a session ends only in the step that handles its own response, when
\* that response is not 'starting'.
C17_RunningHeartbeatLeavesSession ==
    [][/\ (last'.act = "hbResp" /\ dataState(last'.out) = "running")
          => /\ sessions' = sessions
             /\ \A sid \in 1..Len(sessions) :
                   /\ PollIds(sid)' = PollIds(sid)
                   /\ PollTimers(sid)' = PollTimers(sid)
             /\ notificationEl # 0 => HideInitiated(notificationEl)
       /\ \A sid \in 1..Len(sessions) :
             (Active(sid) /\ ~Active(sid)')
             => /\ last'.act = "pollResp"
                /\ last'.sid = sid
                /\ dataState(last'.out) # "starting"]_vars

\* a 'running' heartbeat has just initiated a hide while a session is active
C17_Witness ==
    /\ last.act = "hbResp"
    /\ dataState(last.out) = "running"
    /\ ActiveSessions # {}
    /\ Len(timers) >= 1
    /\ timers[Len(timers)].kind = "fade"

\* ---- C18 ----------------------------------------------------------------
\* C18: a poll response whose state is neither 'running' nor 'starting'
\* ends the session with no further attempt, creates no notification and
\* initiates the hide of the displayed one.
C18_OtherStateDismissesAndEnds ==
    [][\A sid \in 1..Len(sessions) :
          (/\ last'.act = "pollResp"
           /\ last'.sid = sid
           /\ ~Thrown(last'.out)
           /\ dataState(last'.out) \notin {"running", "starting"})
          => /\ ~Active(sid)'
             /\ nextEl' = nextEl
             /\ nextReq' = nextReq
             /\ IF notificationEl # 0 THEN HideInitiated(notificationEl)
                ELSE timers' = timers]_vars

\* a poll answered 'stopped' or without a state has just dismissed the
\* displayed notification
C18_Witness ==
    /\ last.act = "pollResp"
    /\ last.out.body \in {"stopped", "nostate"}
    /\ ~Active(last.sid)
    /\ notificationEl # 0
    /\ Len(timers) >= 1
    /\ timers[Len(timers)].kind = "fade"
    /\ timers[Len(timers)].el = notificationEl

\* ---- C19 ----------------------------------------------------------------
\* C19: every success notification in the overlay's history comes after an
\* info notification and after a heartbeat that carried 'starting', and the
\* step that creates a success element is the handling of a poll response.
C19_SuccessOnlyFromSession ==
    /\ [](\A i \in 1..Len(olog) :
             olog[i].type = "success"
             => /\ \E j \in 1..(i - 1) :
                      olog[j].ev = "show" /\ olog[j].type = "info"
                /\ hbStarting >= 1
                /\ sessions # <<>>)
    /\ [][(\E e \in dom' : e.id > nextEl /\ e.type = "success")
          => last'.act = "pollResp"]_vars

\* the success notification is displayed
C19_Witness ==
    /\ hbStarting >= 1
    /\ \E e \in dom : e.type = "success" /\ e.text = READY_MSG
    /\ \E i \in 1..Len(olog) : olog[i].type = "info"

\* ---- C15 ----------------------------------------------------------------
\* C15 as stated: after setup, when the tab is Hidden and the visibility
\* handler has run, no heartbeat interval timer is live.
C15_NoTimerWhileHidden ==
    (setupDone /\ hidden /\ handlerRan) => intervals = {}

\* C15 as amended: the step that hides the tab leaves no interval timer
\* live, and while the tab stays Hidden a timer becomes live only by setup
\* running (so none does once setup has run).
C15_TimerClearedOnHide ==
    /\ []((hidden /\ intervals # {}) => setupDone)
    /\ [][/\ (~hidden /\ hidden') => (intervals' = {} /\ pingInterval' = 0)
          /\ (hidden /\ hidden' /\ intervals' # intervals)
             => (last'.act = "setup" /\ ~setupDone /\ intervals = {})]_vars

\* after setup the tab has just been hidden while the timer was live, and
\* the timer is gone
C15_Witness ==
    /\ setupDone
    /\ hidden
    /\ last.act = "hidden"
    /\ nextReq >= 1
    /\ intervals = {}
    /\ pingInterval = 0

\* ---- C20 ----------------------------------------------------------------
Quiet == ActiveSessions = {} /\ dom = {} /\ notificationEl = 0

\* C20: once the tab stays Visible and every response reports 'running',
\* the system eventually reaches, and stays in, a state with no active poll
\* session and no notification displayed.
C20_Converges == [](settled => <>[]Quiet)

\* the environment has settled after a session ran and a notification was
\* displayed, and everything is over
C20_Witness ==
    /\ settled
    /\ Quiet
    /\ Len(sessions) >= 1
    /\ nextEl >= 2
    /\ inflight = {}
    /\ timers = <<>>

====
